---- MODULE Spec2Model ----
(***************************************************************************)
(* The UserJobs widget (src/src/elements/UserJobs.js): the job list and    *)
(* its mount-time fetch, the one-second ticker, the SLURM duration string  *)
(* arithmetic, the utilisation percentage, and the cancel requests; and the *)
(* layout lock that the popup Modal of src/src/composer/PopupForm.js takes  *)
(* from the LayoutLockContext while it is open.                            *)
(*                                                                         *)
(* A JavaScript string is a sequence of one-character strings, so that     *)
(* split, Number, parseInt, String and padStart are computed character by  *)
(* character.  The alphabet of the modelled strings is the digits, ":",    *)
(* "-" and the letter "x" (standing for any non-numeric character).  The   *)
(* empty string and an absent value (null, undefined) are both falsy in    *)
(* the tests `!timeStr` and are both the empty sequence.                   *)
(***************************************************************************)
EXTENDS Integers, Sequences, FiniteSets

VARIABLES
    jobs,         \* useState([])    : the job list, a sequence of job records
    loading,      \* useState(true)
    error,        \* useState(null)  : Null or the last error message
    isCanceling,  \* useState(null)  : Null or ONE job id
    mounted,      \* the component is mounted (effects live, state exists)
    fetchState,   \* the mount-time fetch: "pending", "ok" or "failed"
    snapshot,     \* history: data.jobs of the successful fetch response
    pending,      \* job id -> number of cancel requests not yet resolved
    cancelCalls,  \* history: job id -> number of cancel requests issued
    nticks,       \* history: number of interval callbacks run
    lastOp,       \* history: the handler that ran last, [op, id, msg]
    layoutLocked,       \* LayoutLockContext: the layout cannot be edited
    showModal,          \* PopupForm useState(false), one per popup form
    originalLockState,  \* Modal useRef(layoutLocked), one per popup form
    lockBefore,         \* history: layoutLocked when the first Modal opened
    lockOp              \* history: the last popup event, [op, modals]

lockVars == <<layoutLocked, showModal, originalLockState, lockBefore, lockOp>>

vars == <<jobs, loading, error, isCanceling, mounted, fetchState, snapshot,
          pending, cancelCalls, nticks, lastOp, lockVars>>

-----------------------------------------------------------------------------
(* Bounds *)

MaxTicks == 3
MaxCalls == 3
MaxModals == 3

-----------------------------------------------------------------------------
(* JavaScript values *)

Null == "null"

\* The results of Number / parseInt that are not numbers of seconds.  Every
\* number read from a duration string is >= 0 (split("-") removes every "-"),
\* so the negative integers are free to stand for them.
NaN == -1
Undefined == -2

IsNum(v) == v >= 0

\* a + b, a * b in JavaScript for a, b numbers, NaN or undefined
JsAdd(a, b) == IF IsNum(a) /\ IsNum(b) THEN a + b ELSE NaN
JsMul(a, b) == IF IsNum(a) /\ IsNum(b) THEN a * b ELSE NaN
\* a >= k : false when a is NaN or undefined
JsGe(a, k) == IsNum(a) /\ a >= k

Digits == <<"0", "1", "2", "3", "4", "5", "6", "7", "8", "9">>
IsDigit(c) == \E d \in 1..10 : Digits[d] = c
DigitVal(c) == (CHOOSE d \in 1..10 : Digits[d] = c) - 1

\* str.includes(sep)
Includes(str, sep) == \E i \in 1..Len(str) : str[i] = sep

\* str.split(sep) for a one-character separator
RECURSIVE Split(_, _)
Split(str, sep) ==
    IF ~Includes(str, sep) THEN <<str>>
    ELSE LET i == CHOOSE k \in 1..Len(str) :
                    str[k] = sep /\ \A l \in 1..(k - 1) : str[l] # sep
         IN  <<SubSeq(str, 1, i - 1)>> \o Split(SubSeq(str, i + 1, Len(str)), sep)

RECURSIVE DecVal(_)
DecVal(str) ==
    IF str = <<>> THEN 0
    ELSE DecVal(SubSeq(str, 1, Len(str) - 1)) * 10 + DigitVal(str[Len(str)])

\* Number(str): "" is 0, a digit string is its value, anything else is NaN
Number(str) ==
    IF \A i \in 1..Len(str) : IsDigit(str[i]) THEN DecVal(str) ELSE NaN

\* parseInt(str, 10): the value of the longest prefix of digits, NaN if none
parseInt(str) ==
    LET n == CHOOSE k \in 0..Len(str) :
                 /\ \A i \in 1..k : IsDigit(str[i])
                 /\ (k < Len(str) => ~IsDigit(str[k + 1]))
    IN  IF n = 0 THEN NaN ELSE DecVal(SubSeq(str, 1, n))

\* String(v)
RECURSIVE String(_)
String(v) ==
    IF v = NaN THEN <<"N", "a", "N">>
    ELSE IF v = Undefined THEN <<"u", "n", "d", "e", "f", "i", "n", "e", "d">>
    ELSE IF v < 10 THEN <<Digits[v + 1]>>
    ELSE String(v \div 10) \o <<Digits[(v % 10) + 1]>>

\* str.padStart(2, '0')
padStart2(str) ==
    IF Len(str) >= 2 THEN str
    ELSE IF Len(str) = 1 THEN <<"0">> \o str
    ELSE <<"0", "0">>

\* const [h, m, s] = timePart.split(":").map(Number): a missing element is
\* undefined
Field(fields, i) == IF i <= Len(fields) THEN Number(fields[i]) ELSE Undefined

-----------------------------------------------------------------------------
(* Duration strings *)

\* `${hh}:${mm}:${ss}` with each field String(..).padStart(2,'0')
newTime(h, m, s) ==
    padStart2(String(h)) \o <<":">> \o padStart2(String(m)) \o <<":">>
        \o padStart2(String(s))

\* carry with `>` written for `>=`
carryOffByOne(v, limit) == IsNum(v) /\ v > limit

\* The carry tests `s >= 60`, `m >= 60`, `h >= 24`
carry(v, limit) == JsGe(v, limit)

incrementTime(timeStr) ==
    IF timeStr = <<>> THEN <<"0", ":", "0", "0", ":", "0", "1">>
    ELSE
    LET hasDash  == Includes(timeStr, "-")
        parts    == Split(timeStr, "-")
        daysPart == IF hasDash THEN parts[1] ELSE <<>>   \* null is falsy as "" is
        timePart == IF hasDash THEN parts[2] ELSE timeStr
        fields   == Split(timePart, ":")
        h0 == Field(fields, 1)
        m0 == Field(fields, 2)
        s0 == Field(fields, 3)
        s1 == JsAdd(s0, 1)
        s2 == IF carry(s1, 60) THEN 0 ELSE s1
        m1 == IF carry(s1, 60) THEN JsAdd(m0, 1) ELSE m0
        m2 == IF carry(m1, 60) THEN 0 ELSE m1
        h1 == IF carry(m1, 60) THEN JsAdd(h0, 1) ELSE h0
        carryDay == daysPart # <<>> /\ carry(h1, 24)
        h2 == IF carryDay THEN 0 ELSE h1
        dayNum == JsAdd(parseInt(daysPart), 1)
        t == newTime(h2, m2, s2)
    IN  IF carryDay
        THEN (IF IsNum(dayNum) /\ dayNum # 0
              THEN String(dayNum) \o <<"-">> \o t
              ELSE t)
        ELSE (IF daysPart # <<>> THEN daysPart \o <<"-">> \o t ELSE t)

toSeconds(timeStr) ==
    IF timeStr = <<>> THEN 0
    ELSE
    LET hasDash  == Includes(timeStr, "-")
        parts    == Split(timeStr, "-")
        days     == IF hasDash THEN parseInt(parts[1]) ELSE 0
        timePart == IF hasDash THEN parts[2] ELSE timeStr
        fields   == Split(timePart, ":")
        h == Field(fields, 1)
        m == Field(fields, 2)
        s == Field(fields, 3)
    IN  JsAdd(JsAdd(JsAdd(JsMul(days, 86400), JsMul(h, 3600)), JsMul(m, 60)), s)

\* a > 0 : false when a is NaN or undefined
JsGt0(a) == IsNum(a) /\ a > 0

\* a unit shown only when it is not zero
showUnitNonZero(value, parts) == JsGt0(value)

\* `value > 0 || parts.length > 0`
showUnit(value, parts) == JsGt0(value) \/ Len(parts) > 0

\* parts.join(" ")
RECURSIVE Join(_)
Join(parts) ==
    IF Len(parts) = 0 THEN <<>>
    ELSE IF Len(parts) = 1 THEN parts[1]
    ELSE parts[1] \o <<" ">> \o Join(Tail(parts))

formatTime(timeStr) ==
    IF timeStr = <<>> THEN <<"N", "/", "A">>
    ELSE
    LET hasDash  == Includes(timeStr, "-")
        split    == Split(timeStr, "-")
        dayPart  == IF hasDash THEN split[1] ELSE <<>>   \* null is falsy as "" is
        timePart == IF hasDash THEN split[2] ELSE timeStr
        fields   == Split(timePart, ":")
        hours    == Field(fields, 1)
        minutes  == Field(fields, 2)
        seconds  == Field(fields, 3)
        days     == IF dayPart # <<>> THEN parseInt(dayPart)
                    ELSE IF IsNum(hours) THEN hours \div 24 ELSE NaN
        remainingHours == IF dayPart # <<>> THEN hours
                          ELSE IF IsNum(hours) THEN hours % 24 ELSE NaN
        parts0 == <<>>
        parts1 == IF JsGt0(days) THEN Append(parts0, String(days) \o <<"d">>) ELSE parts0
        parts2 == IF showUnit(remainingHours, parts1)
                  THEN Append(parts1, String(remainingHours) \o <<"h">>) ELSE parts1
        parts3 == IF showUnit(minutes, parts2)
                  THEN Append(parts2, String(minutes) \o <<"m">>) ELSE parts2
        parts4 == Append(parts3, String(seconds) \o <<"s">>)
    IN  Join(parts4)

\* ((elapsedSec / requestedSec) * 100).toFixed(2), in hundredths of a percent
\* (7512 is "75.12"): the nearest hundredth, the larger one on a tie.  The
\* quotient is divided out in two stages to stay within TLC's integers; the
\* result is that of rounding the exact elapsedSec * 10000 / requestedSec.
\* JavaScript rounds the double nearest to the quotient instead, which at an
\* exact tie (14.375) may give the hundredth below (14.37 for 14.38).
toFixed2(elapsedSec, requestedSec) ==
    LET whole == (elapsedSec * 100) \div requestedSec
        rem1  == (elapsedSec * 100) % requestedSec
        cents == (rem1 * 100) \div requestedSec
        rem2  == (rem1 * 100) % requestedSec
    IN  whole * 100 + cents + (IF 2 * rem2 >= requestedSec THEN 1 ELSE 0)

\* getElapsedPercentage without Math.min(100, ..)
getElapsedPercentageUnclamped(elapsed, requested) ==
    LET elapsedSec   == toSeconds(elapsed)
        requestedSec == toSeconds(requested)
    IN  IF requestedSec = 0 THEN 0
        ELSE IF ~IsNum(elapsedSec) \/ ~IsNum(requestedSec) THEN NaN
        ELSE toFixed2(elapsedSec, requestedSec)

\* getElapsedPercentage, in hundredths of a percent; NaN when a duration did
\* not parse to a number (Math.min(100, "NaN") is NaN).
getElapsedPercentage(elapsed, requested) ==
    LET elapsedSec   == toSeconds(elapsed)
        requestedSec == toSeconds(requested)
        fixed2 == toFixed2(elapsedSec, requestedSec)
    IN  IF requestedSec = 0 THEN 0
        ELSE IF ~IsNum(elapsedSec) \/ ~IsNum(requestedSec) THEN NaN
        ELSE IF fixed2 < 10000 THEN fixed2 ELSE 10000

\* a < k : false when a is NaN or undefined
JsLt(a, k) == IsNum(a) /\ a < k

\* getColor with `<=` written for `<` at 75
getColorInclusive(percentage) ==
    IF JsLt(percentage, 5000) THEN "text-green-600"
    ELSE IF IsNum(percentage) /\ percentage <= 7500 THEN "text-yellow-500"
    ELSE "text-red-600"

\* getColor(percentage), the class of the text; percentage in hundredths
getColor(percentage) ==
    IF JsLt(percentage, 5000) THEN "text-green-600"
    ELSE IF JsLt(percentage, 7500) THEN "text-yellow-500"
    ELSE "text-red-600"

\* The class of the progress bar: timePercentage >= 75 ? .. : >= 50 ? .. : ..
barColor(timePercentage) ==
    IF JsGe(timePercentage, 7500) THEN "bg-red-600"
    ELSE IF JsGe(timePercentage, 5000) THEN "bg-yellow-500"
    ELSE "bg-green-500"

-----------------------------------------------------------------------------
(* Jobs and server responses *)

JobIds == {"A", "B", "C"}

Job(id, st, el, rq) ==
    [job_id |-> id, job_name |-> "sim", state |-> st, cpus |-> 4, nodes |-> 1,
     time_elapsed |-> el, time_requested |-> rq]

T_0_00_10 == <<"0", ":", "0", "0", ":", "1", "0">>
T_0_59_59 == <<"0", ":", "5", "9", ":", "5", "9">>
T_1_00_00 == <<"1", ":", "0", "0", ":", "0", "0">>
T_0_00_00 == <<"0", ":", "0", "0", ":", "0", "0">>
T_0_30_00 == <<"0", ":", "3", "0", ":", "0", "0">>
T_1d_23_59_59 == <<"1", "-", "2", "3", ":", "5", "9", ":", "5", "9">>
T_2d_00_00_00 == <<"2", "-", "0", "0", ":", "0", "0", ":", "0", "0">>

Ids(list) == { list[i].job_id : i \in 1..Len(list) }

\* data.jobs of the responses considered; job ids are unique in a response
Snapshots ==
    { <<>>,
      <<Job("B", "R", T_0_59_59, T_1_00_00)>>,
      <<Job("A", "R", T_0_00_10, T_1_00_00), Job("C", "PD", T_0_00_00, T_0_30_00)>>,
      <<Job("C", "R", <<>>, <<>>), Job("A", "R", T_1d_23_59_59, T_2d_00_00_00)>>,
      <<Job("A", "R", T_0_00_10, T_1_00_00), Job("B", "CG", T_0_30_00, T_1_00_00),
        Job("C", "R", T_0_59_59, T_0_30_00)>> }

\* err.message of a rejected fetch, of a rejected res.json(), of data.error
NetworkMessage == "Failed to fetch"
ParseMessage == "Unexpected token < in JSON"
ServerMessage == "server error"
FailureMessages == {NetworkMessage, ParseMessage, ServerMessage}

Op(o, id, message) == [op |-> o, id |-> id, msg |-> message]

-----------------------------------------------------------------------------
(* The component *)

NoCalls == [j \in JobIds |-> 0]

\* The popup forms of the page, in the order of the component tree
Modals == 1..MaxModals

\* No popup form shows its Modal
NoModal ==
    /\ showModal = [m \in Modals |-> FALSE]
    /\ originalLockState = [m \in Modals |-> FALSE]
    /\ lockOp = [op |-> "none", modals |-> {}]

RECURSIVE Sum(_, _)
Sum(f, S) == IF S = {} THEN 0 ELSE LET x == CHOOSE y \in S : TRUE
                                   IN  f[x] + Sum(f, S \ {x})

Init ==
    /\ jobs = <<>>
    /\ loading = TRUE
    /\ error = Null
    /\ isCanceling = Null
    /\ mounted = TRUE
    /\ fetchState = "pending"
    /\ snapshot = <<>>
    /\ pending = NoCalls
    /\ cancelCalls = NoCalls
    /\ nticks = 0
    /\ lastOp = Op("mount", Null, Null)
    /\ NoModal
    /\ layoutLocked = FALSE
    /\ lockBefore = FALSE

\* The table is rendered only past `if (loading)` and `if (error)`.
Rendered == mounted /\ ~loading /\ error = Null

\* a cancel button that is never disabled
ButtonDisabledNever(jobId) == FALSE

\* disabled={isCanceling === job.job_id}
ButtonDisabled(jobId) == isCanceling = jobId

\* a ticker that lists the running jobs first
tickJobsRunningFirst(prevJobs) ==
    LET ticked == [i \in 1..Len(prevJobs) |->
                      IF prevJobs[i].state = "R"
                      THEN [prevJobs[i] EXCEPT !.time_elapsed = incrementTime(@)]
                      ELSE prevJobs[i]]
    IN  SelectSeq(ticked, LAMBDA job : job.state = "R")
        \o SelectSeq(ticked, LAMBDA job : job.state # "R")

\* a ticker that does not test job.state
tickJobsAll(prevJobs) ==
    [i \in 1..Len(prevJobs) |->
        [prevJobs[i] EXCEPT !.time_elapsed = incrementTime(@)]]

\* prevJobs.map(job => job.state === "R" ? {...job, time_elapsed: ...} : job)
tickJobs(prevJobs) ==
    [i \in 1..Len(prevJobs) |->
        IF prevJobs[i].state = "R"
        THEN [prevJobs[i] EXCEPT !.time_elapsed = incrementTime(@)]
        ELSE prevJobs[i]]

\* a snapshot on top of which a local tick is applied
replaceJobsDrift(prevJobs, dataJobs) ==
    [i \in 1..Len(dataJobs) |->
        IF dataJobs[i].state = "R"
        THEN [dataJobs[i] EXCEPT !.time_elapsed = incrementTime(@)]
        ELSE dataJobs[i]]

\* setJobs(data.jobs || []): the list is replaced, whatever it held
replaceJobs(prevJobs, dataJobs) == dataJobs

\* a removal by position, prev.splice(prev.findIndex(...), 1): index -1 of an
\* absent id removes the last job
removeJobByPosition(prev, jobId) ==
    LET found == {i \in 1..Len(prev) : prev[i].job_id = jobId}
        at    == IF found = {} THEN Len(prev)
                 ELSE CHOOSE i \in found : \A k \in found : i <= k
    IN  SubSeq(prev, 1, at - 1) \o SubSeq(prev, at + 1, Len(prev))

\* prev.filter((job) => job.job_id !== jobId)
removeJob(prev, jobId) == SelectSeq(prev, LAMBDA job : job.job_id # jobId)

\* a fetch that is issued and resolved again while the view is shown
FetchSucceedsRepeats(dataJobs) ==
    /\ fetchState \in {"pending", "ok"}
    /\ fetchState' = "ok"
    /\ snapshot' = dataJobs
    /\ lastOp' = Op("fetchOk", Null, Null)
    /\ UNCHANGED lockVars
    /\ IF mounted
       THEN /\ jobs' = replaceJobs(jobs, dataJobs)
            /\ loading' = FALSE
       ELSE UNCHANGED <<jobs, loading>>
    /\ UNCHANGED <<error, isCanceling, mounted, pending, cancelCalls, nticks>>

\* The fetch of the mount effect resolves with {jobs: dataJobs} (a response
\* without jobs is dataJobs = <<>>).  React drops the state updates of a
\* component that is no longer mounted.
FetchSucceeds(dataJobs) ==
    /\ fetchState = "pending"
    /\ fetchState' = "ok"
    /\ snapshot' = dataJobs
    /\ lastOp' = Op("fetchOk", Null, Null)
    /\ UNCHANGED lockVars
    /\ IF mounted
       THEN /\ jobs' = replaceJobs(jobs, dataJobs)
            /\ loading' = FALSE
       ELSE UNCHANGED <<jobs, loading>>
    /\ UNCHANGED <<error, isCanceling, mounted, pending, cancelCalls, nticks>>

\* a failed fetch whose error is swallowed
FetchFailsSilent(message) ==
    /\ fetchState = "pending"
    /\ fetchState' = "failed"
    /\ lastOp' = Op("fetchFail", Null, message)
    /\ UNCHANGED lockVars
    /\ IF mounted THEN loading' = FALSE ELSE UNCHANGED loading
    /\ UNCHANGED <<jobs, error, isCanceling, mounted, snapshot, pending, cancelCalls,
                   nticks>>

\* The fetch rejects, res.json() rejects, or the response carries an error.
FetchFails(message) ==
    /\ fetchState = "pending"
    /\ fetchState' = "failed"
    /\ lastOp' = Op("fetchFail", Null, message)
    /\ UNCHANGED lockVars
    /\ IF mounted
       THEN /\ error' = message
            /\ loading' = FALSE
       ELSE UNCHANGED <<error, loading>>
    /\ UNCHANGED <<jobs, isCanceling, mounted, snapshot, pending, cancelCalls, nticks>>

\* an interval that is not cleared at unmount
TickLeaked ==
    /\ nticks < MaxTicks
    /\ jobs' = tickJobs(jobs)
    /\ nticks' = nticks + 1
    /\ lastOp' = Op("tick", Null, Null)
    /\ UNCHANGED lockVars
    /\ UNCHANGED <<loading, error, isCanceling, mounted, fetchState, snapshot,
                   pending, cancelCalls>>

\* The setInterval callback; clearInterval at unmount stops it.
Tick ==
    /\ mounted
    /\ nticks < MaxTicks
    /\ jobs' = tickJobs(jobs)
    /\ nticks' = nticks + 1
    /\ lastOp' = Op("tick", Null, Null)
    /\ UNCHANGED lockVars
    /\ UNCHANGED <<loading, error, isCanceling, mounted, fetchState, snapshot,
                   pending, cancelCalls>>

\* cancelJob(jobId) up to the fetch being issued
cancelJob(jobId) ==
    /\ isCanceling' = jobId
    /\ pending' = [pending EXCEPT ![jobId] = @ + 1]
    /\ cancelCalls' = [cancelCalls EXCEPT ![jobId] = @ + 1]
    /\ lastOp' = Op("cancel", jobId, Null)
    /\ UNCHANGED lockVars
    /\ UNCHANGED <<jobs, loading, error, mounted, fetchState, snapshot, nticks>>

\* The user clicks the cancel button of the row of jobId: a disabled button
\* runs no handler.
ClickCancel(jobId) ==
    /\ Rendered
    /\ jobId \in Ids(jobs)
    /\ IF ButtonDisabled(jobId)
       THEN /\ lastOp' = Op("ignored", jobId, Null)
            /\ UNCHANGED <<jobs, loading, error, isCanceling, mounted, fetchState,
                           snapshot, pending, cancelCalls, nticks, lockVars>>
       ELSE /\ Sum(cancelCalls, JobIds) < MaxCalls
            /\ cancelJob(jobId)

\* a successful cancel whose result is applied to a torn-down view as well
CancelSucceedsAfterTeardown(jobId) ==
    /\ pending[jobId] > 0
    /\ pending' = [pending EXCEPT ![jobId] = @ - 1]
    /\ lastOp' = Op("cancelOk", jobId, Null)
    /\ UNCHANGED lockVars
    /\ jobs' = removeJob(jobs, jobId)
    /\ isCanceling' = Null
    /\ UNCHANGED <<loading, error, mounted, fetchState, snapshot, cancelCalls, nticks>>

\* A cancel request of jobId resolves without error
CancelSucceeds(jobId) ==
    /\ pending[jobId] > 0
    /\ pending' = [pending EXCEPT ![jobId] = @ - 1]
    /\ lastOp' = Op("cancelOk", jobId, Null)
    /\ UNCHANGED lockVars
    /\ IF mounted
       THEN /\ jobs' = removeJob(jobs, jobId)
            /\ isCanceling' = Null
       ELSE UNCHANGED <<jobs, isCanceling>>
    /\ UNCHANGED <<loading, error, mounted, fetchState, snapshot, cancelCalls, nticks>>

\* a failed cancel that clears the marker in .then() only, not in .finally()
CancelFailsKeepsMarker(jobId, message) ==
    /\ pending[jobId] > 0
    /\ pending' = [pending EXCEPT ![jobId] = @ - 1]
    /\ lastOp' = Op("cancelFail", jobId, message)
    /\ UNCHANGED lockVars
    /\ IF mounted THEN error' = message ELSE UNCHANGED error
    /\ UNCHANGED <<jobs, loading, isCanceling, mounted, fetchState, snapshot,
                   cancelCalls, nticks>>

\* A cancel request of jobId rejects, its body does not parse, or the
\* response carries an error
CancelFails(jobId, message) ==
    /\ pending[jobId] > 0
    /\ pending' = [pending EXCEPT ![jobId] = @ - 1]
    /\ lastOp' = Op("cancelFail", jobId, message)
    /\ UNCHANGED lockVars
    /\ IF mounted
       THEN /\ error' = message
            /\ isCanceling' = Null
       ELSE UNCHANGED <<error, isCanceling>>
    /\ UNCHANGED <<jobs, loading, mounted, fetchState, snapshot, cancelCalls, nticks>>

\* The view is closed: the interval is cleared, the requests stay in flight
Unmount ==
    /\ mounted
    /\ mounted' = FALSE
    /\ lastOp' = Op("unmount", Null, Null)
    /\ UNCHANGED lockVars
    /\ UNCHANGED <<jobs, loading, error, isCanceling, fetchState, snapshot,
                   pending, cancelCalls, nticks>>

Next ==
    \/ \E dataJobs \in Snapshots : FetchSucceeds(dataJobs)
    \/ \E message \in FailureMessages : FetchFails(message)
    \/ Tick
    \/ \E jobId \in JobIds : ClickCancel(jobId)
    \/ \E jobId \in JobIds : CancelSucceeds(jobId)
    \/ \E jobId \in JobIds, message \in FailureMessages : CancelFails(jobId, message)
    \/ Unmount

Spec == Init /\ [][Next]_vars

-----------------------------------------------------------------------------
(* The duration arithmetic on its own: one running job, reported by the    *)
(* server with any of the durations below, and the ticker.                 *)

DayPrefixes == { <<>>, <<"0", "-">>, <<"1", "-">>, <<"9", "-">>, <<"1", "0", "-">> }
HourFields == { <<"0">>, <<"0", "0">>, <<"1">>, <<"0", "9">>, <<"1", "0">>,
                <<"2", "2">>, <<"2", "3">> }
\* hours of a duration without day prefix are not limited to 23
LongHourFields == { <<"2", "4">>, <<"9", "9">>, <<"1", "0", "0">> }
MinuteFields == { <<"0", "0">>, <<"0", "1">>, <<"0", "9">>, <<"1", "0">>,
                  <<"5", "8">>, <<"5", "9">>, <<"5">> }
SecondFields == { <<"0", "0">>, <<"0", "8">>, <<"0", "9">>, <<"1", "0">>,
                  <<"5", "8">>, <<"5", "9">>, <<"9">> }

\* 4999 s and 7499 s: with 10000 s requested, 49.99 % and 74.99 %, and one
\* tick later 50 % and 75 %
T_1_23_19 == <<"1", ":", "2", "3", ":", "1", "9">>
T_2_04_59 == <<"2", ":", "0", "4", ":", "5", "9">>
T_2_46_40 == <<"2", ":", "4", "6", ":", "4", "0">>

\* Durations that are not H:M:S: MM:SS, a single field, a non-numeric field
MalformedDurations ==
    { <<"5", ":", "3", "0">>, <<"5">>, <<"x", ":", "0", "0", ":", "5", "9">>,
      <<"1", "-", "0", "0", ":", "x", "0", ":", "0", "0">> }

DurElapsed ==
    { d \o h \o <<":">> \o m \o <<":">> \o s :
        d \in DayPrefixes, h \in HourFields, m \in MinuteFields, s \in SecondFields }
    \cup { h \o <<":">> \o m \o <<":">> \o s :
        h \in LongHourFields, m \in MinuteFields, s \in SecondFields }
    \cup { <<>>, T_1_23_19, T_2_04_59 }
    \cup MalformedDurations

DurRequested ==
    { <<>>, T_0_00_00, T_0_00_10, T_1_00_00, T_2_46_40,
      <<"1", "-", "0", "0", ":", "0", "0", ":", "0", "0">>,
      <<"1", "0", "0", ":", "0", "0", ":", "0", "0">> }

DurInit ==
    /\ \E el \in DurElapsed, rq \in DurRequested :
          /\ snapshot = <<Job("A", "R", el, rq)>>
          /\ jobs = snapshot
    /\ loading = FALSE
    /\ error = Null
    /\ isCanceling = Null
    /\ mounted = TRUE
    /\ fetchState = "ok"
    /\ pending = NoCalls
    /\ cancelCalls = NoCalls
    /\ nticks = 0
    /\ lastOp = Op("fetchOk", Null, Null)
    /\ NoModal
    /\ layoutLocked = FALSE
    /\ lockBefore = FALSE

DurNext == Tick

DurSpec == DurInit /\ [][DurNext]_vars

-----------------------------------------------------------------------------
(* The layout lock of the popup Modals.  The UserJobs widget stays as      *)
(* mounted.                                                                *)

\* the last of the modals S in the order of the component tree
LastOf(S) == CHOOSE m \in S : \A k \in S : k <= m

\* The button of popup form m is activated: setShowModal(true); the Modal
\* mounts, its effect saves layoutLocked in its ref and locks the layout.
OpenModal(m) ==
    /\ ~showModal[m]
    /\ showModal' = [showModal EXCEPT ![m] = TRUE]
    /\ originalLockState' = [originalLockState EXCEPT ![m] = layoutLocked]
    /\ layoutLocked' = TRUE
    /\ lockBefore' = IF \A k \in Modals : ~showModal[k] THEN layoutLocked ELSE lockBefore
    /\ lockOp' = [op |-> "open", modals |-> {m}]
    /\ UNCHANGED <<jobs, loading, error, isCanceling, mounted, fetchState, snapshot,
                   pending, cancelCalls, nticks, lastOp>>

\* One event closes the open Modals S: the close button or the submit of one
\* Modal, Escape (every open Modal listens), or a mousedown outside the
\* Modals of S.  Each cleanup calls setLayoutLocked with its saved value, in
\* tree order, and the last call stands.
CloseModals(S) ==
    /\ S # {}
    /\ \A m \in S : showModal[m]
    /\ showModal' = [m \in Modals |-> showModal[m] /\ m \notin S]
    /\ layoutLocked' = originalLockState[LastOf(S)]
    /\ lockOp' = [op |-> "close", modals |-> S]
    /\ UNCHANGED <<originalLockState, lockBefore>>
    /\ UNCHANGED <<jobs, loading, error, isCanceling, mounted, fetchState, snapshot,
                   pending, cancelCalls, nticks, lastOp>>

LockInit ==
    /\ jobs = <<>>
    /\ loading = TRUE
    /\ error = Null
    /\ isCanceling = Null
    /\ mounted = TRUE
    /\ fetchState = "pending"
    /\ snapshot = <<>>
    /\ pending = NoCalls
    /\ cancelCalls = NoCalls
    /\ nticks = 0
    /\ lastOp = Op("mount", Null, Null)
    /\ NoModal
    /\ layoutLocked \in BOOLEAN
    /\ lockBefore = layoutLocked

LockNext ==
    \/ \E m \in Modals : OpenModal(m)
    \/ \E S \in SUBSET Modals : CloseModals(S)

LockSpec == LockInit /\ [][LockNext]_vars

-----------------------------------------------------------------------------
(* Properties *)

\* The steps of the handlers, read off the history variables
TickStep == nticks' = nticks + 1
CancelResolves(jobId) == pending'[jobId] = pending[jobId] - 1
FetchResolves(how) == fetchState = "pending" /\ fetchState' = how

\* CancellationController.isInFlight(jobId), as the view computes it
isInFlight(jobId) == isCanceling = jobId

\* C1: when the cancel button of a job is clicked twice in immediate
\* succession (the step after cancelJob(j) is again a click on j's button),
\* the second click is ignored: it issues no network call and changes nothing
\* of the component's state, so one call was issued for the two clicks.
C1_DoubleClickIssuesOneCall ==
    [][\A j \in JobIds :
          (/\ lastOp = Op("cancel", j, Null)
           /\ lastOp'.id = j
           /\ lastOp'.op \in {"cancel", "ignored"})
          => /\ lastOp'.op = "ignored"
             /\ cancelCalls' = cancelCalls
             /\ pending' = pending
             /\ UNCHANGED <<jobs, loading, error, isCanceling>>]_vars

C1_Witness ==
    \E j \in JobIds :
        /\ lastOp = Op("ignored", j, Null)
        /\ nticks = 0
        /\ cancelCalls = [NoCalls EXCEPT ![j] = 1]
        /\ pending[j] = 1
        /\ isInFlight(j)

\* C2: for every job id j, isInFlight(j) is true in every state (of the
\* mounted view) in which a cancel request for j is pending, whatever cancels
\* for other job ids are issued or resolve in between.
C2_PendingIsInFlight ==
    \A j \in JobIds : (mounted /\ pending[j] > 0) => isInFlight(j)

\* C3: when a cancel request for job j resolves, with success or with any
\* failure, the in-flight marker of j is cleared: isInFlight(j) is false in
\* the state after the resolution (of a mounted view).
C3_ResolveClearsMarker ==
    [][\A j \in JobIds :
          (mounted /\ CancelResolves(j)) => ~isInFlight(j)']_vars

C3_Witness ==
    \E j \in JobIds :
        /\ lastOp.op = "cancelFail"
        /\ lastOp.id = j
        /\ mounted
        /\ cancelCalls[j] = 1
        /\ pending[j] = 0
        /\ error = lastOp.msg
        /\ ~isInFlight(j)

\* C4: when a cancel request for job j resolves: on success j is removed
\* from the list and every other job is unchanged; on failure the list is
\* unchanged, j is still in it, and error is the failure message.
C4_ResolveOutcome ==
    [][\A j \in JobIds :
          (mounted /\ CancelResolves(j)) =>
              IF lastOp'.op = "cancelOk"
              THEN /\ j \notin Ids(jobs')
                   /\ jobs' = SelectSeq(jobs, LAMBDA job : job.job_id # j)
              ELSE /\ jobs' = jobs
                   /\ j \in Ids(jobs')
                   /\ error' = lastOp'.msg
                   /\ error' \in FailureMessages]_vars

\* C5: a failed snapshot fetch (network error, unparseable response, error
\* field) leaves the job list exactly as it was, so it does not empty it, and
\* sets error to the failure message.
C5_FailedFetchKeepsJobs ==
    [][(mounted /\ FetchResolves("failed"))
          => /\ jobs' = jobs
             /\ error' = lastOp'.msg
             /\ error' \in FailureMessages]_vars

C5_Witness ==
    /\ lastOp.op = "fetchFail"
    /\ mounted
    /\ nticks > 0
    /\ error = lastOp.msg
    /\ jobs = <<>>
    /\ ~loading

\* C6: after a successful snapshot is applied the list holds the snapshot's
\* jobs, each with the elapsed the snapshot reports, whatever number of ticks
\* ran before it arrived.
C6_SnapshotWins ==
    [][(mounted /\ FetchResolves("ok"))
          => /\ Len(jobs') = Len(snapshot')
             /\ \A i \in 1..Len(snapshot') :
                   /\ jobs'[i].job_id = snapshot'[i].job_id
                   /\ jobs'[i].time_elapsed = snapshot'[i].time_elapsed]_vars

C6_Witness ==
    /\ lastOp.op = "fetchOk"
    /\ mounted
    /\ nticks = MaxTicks
    /\ \E i \in 1..Len(jobs) :
          /\ jobs[i].state = "R"
          /\ jobs[i].time_elapsed = T_0_00_10
          /\ snapshot[i].time_elapsed = T_0_00_10

\* C7: one tick replaces the elapsed of every Running job by its increment
\* and changes nothing else: the other jobs are identical, no job is added
\* or removed, and the other fields of the Running jobs are unchanged.
C7_TickFrame ==
    [][TickStep =>
          /\ Len(jobs') = Len(jobs)
          /\ \A i \in 1..Len(jobs) :
                IF jobs[i].state = "R"
                THEN /\ jobs'[i].time_elapsed = incrementTime(jobs[i].time_elapsed)
                     /\ jobs'[i].job_id = jobs[i].job_id
                     /\ jobs'[i].job_name = jobs[i].job_name
                     /\ jobs'[i].state = jobs[i].state
                     /\ jobs'[i].cpus = jobs[i].cpus
                     /\ jobs'[i].nodes = jobs[i].nodes
                     /\ jobs'[i].time_requested = jobs[i].time_requested
                ELSE jobs'[i] = jobs[i]
          /\ UNCHANGED <<loading, error, isCanceling, pending, cancelCalls>>]_vars

C7_Witness ==
    /\ lastOp.op = "tick"
    /\ Len(jobs) = 3
    /\ jobs[1].state = "R" /\ jobs[1].time_elapsed # snapshot[1].time_elapsed
    /\ jobs[2].state = "CG" /\ jobs[2] = snapshot[2]
    /\ jobs[3].state = "R"

\* A non-empty string of digits
IsDigits(str) == Len(str) >= 1 /\ \A i \in 1..Len(str) : IsDigit(str[i])

\* [D-]H:M:S: numeric fields, minutes and seconds in 0..59 and, with a day
\* prefix, hours in 0..23 (every [D-]H:MM:SS duration is one of these)
IsValidDuration(t) ==
    LET parts == Split(t, "-")
        f == Split(parts[Len(parts)], ":")
    IN  /\ Len(parts) \in {1, 2}
        /\ Len(parts) = 2 => IsDigits(parts[1])
        /\ Len(f) = 3
        /\ \A i \in 1..3 : IsDigits(f[i])
        /\ Number(f[2]) <= 59
        /\ Number(f[3]) <= 59
        /\ Len(parts) = 2 => Number(f[1]) <= 23

\* HH:MM:SS or D-HH:MM:SS, each of the three fields of two digits or more
IsCanonical(t) ==
    LET parts == Split(t, "-")
        f == Split(parts[Len(parts)], ":")
    IN  /\ Len(parts) \in {1, 2}
        /\ Len(parts) = 2 => IsDigits(parts[1])
        /\ Len(f) = 3
        /\ \A i \in 1..3 : IsDigits(f[i]) /\ Len(f[i]) >= 2

\* C8: for every valid duration string t, parse(increment(t)) = parse(t) + 1,
\* with carry from seconds to minutes, minutes to hours and, with a day
\* prefix, hours to days: "0:59:59" gives "01:00:00" and "1-23:59:59" gives
\* "2-00:00:00".
C8_IncrementAddsOneSecond ==
    [][TickStep =>
          \A i \in 1..Len(jobs) :
              LET t == jobs[i].time_elapsed
                  u == jobs'[i].time_elapsed
              IN  (jobs[i].state = "R" /\ IsValidDuration(t))
                  => /\ u = incrementTime(t)
                     /\ toSeconds(u) = toSeconds(t) + 1
                     /\ t = T_0_59_59 => u = <<"0", "1", ":", "0", "0", ":", "0", "0">>
                     /\ t = T_1d_23_59_59 => u = T_2d_00_00_00]_vars

C8_Witness ==
    /\ lastOp.op = "tick"
    /\ nticks = 1
    /\ snapshot[1].time_elapsed = T_1d_23_59_59
    /\ jobs[1].time_elapsed = T_2d_00_00_00
    /\ toSeconds(jobs[1].time_elapsed) = 172800

\* C9: the result of increment is in the canonical form HH:MM:SS or
\* D-HH:MM:SS, each field zero-padded to two digits or more, for every input
\* it accepts: the valid durations, padded or not, and the empty input.
C9_IncrementIsCanonical ==
    [][TickStep =>
          \A i \in 1..Len(jobs) :
              LET t == jobs[i].time_elapsed
              IN  (jobs[i].state = "R" /\ (t = <<>> \/ IsValidDuration(t)))
                  => IsCanonical(jobs'[i].time_elapsed)]_vars

\* C10: for every pair of durations the percentage lies between 0 and 100:
\* it is 0 whenever requested is 0 seconds, whatever elapsed is, and (for a
\* requested time that is not 0) it is 100 whenever elapsed exceeds requested;
\* this holds for every job in every state the ticks reach.  Percentages are
\* in hundredths of a percent.
IsDuration(t) == t = <<>> \/ IsValidDuration(t)

C10_PercentageClamped ==
    \A i \in 1..Len(jobs) :
        LET el == jobs[i].time_elapsed
            rq == jobs[i].time_requested
            p  == getElapsedPercentage(el, rq)
        IN  (IsDuration(el) /\ IsDuration(rq))
            => /\ 0 <= p /\ p <= 10000
               /\ toSeconds(rq) = 0 => p = 0
               /\ (toSeconds(rq) > 0 /\ toSeconds(el) > toSeconds(rq)) => p = 10000

C10_Witness ==
    /\ nticks > 0
    /\ toSeconds(snapshot[1].time_elapsed) <= toSeconds(snapshot[1].time_requested)
    /\ toSeconds(jobs[1].time_requested) > 0
    /\ toSeconds(jobs[1].time_elapsed) > toSeconds(jobs[1].time_requested)
    /\ getElapsedPercentage(jobs[1].time_elapsed, jobs[1].time_requested) = 10000

-----------------------------------------------------------------------------
(* Colours *)

\* The tier a class of the text, of the bar, stands for
TextTier(class) ==
    IF class = "text-green-600" THEN "Low"
    ELSE IF class = "text-yellow-500" THEN "Medium" ELSE "High"
BarTier(class) ==
    IF class = "bg-green-500" THEN "Low"
    ELSE IF class = "bg-yellow-500" THEN "Medium" ELSE "High"

\* Low below 50, Medium from 50 and below 75, High from 75 (hundredths)
Tier(value) ==
    IF value < 5000 THEN "Low" ELSE IF value < 7500 THEN "Medium" ELSE "High"

\* C11: the colour of the text and the colour of the progress bar select the
\* same tier for every percentage of a pair of durations: Low for value < 50,
\* Medium for 50 <= value < 75, High for value >= 75; 49.99 is Low, 50 and
\* 74.99 are Medium and 75 is High in both.
C11_SameThresholds ==
    \A i \in 1..Len(jobs) :
        LET el == jobs[i].time_elapsed
            rq == jobs[i].time_requested
            p  == getElapsedPercentage(el, rq)
        IN  (IsDuration(el) /\ IsDuration(rq))
            => /\ TextTier(getColor(p)) = Tier(p)
               /\ BarTier(barColor(p)) = Tier(p)
               /\ p = 4999 => getColor(p) = "text-green-600" /\ barColor(p) = "bg-green-500"
               /\ p \in {5000, 7499}
                     => getColor(p) = "text-yellow-500" /\ barColor(p) = "bg-yellow-500"
               /\ p = 7500 => getColor(p) = "text-red-600" /\ barColor(p) = "bg-red-600"

\* 74.99 % ticked to 75 %: the bar and the text are both red
C11_Witness ==
    /\ nticks = 1
    /\ snapshot[1].time_elapsed = T_2_04_59
    /\ getElapsedPercentage(snapshot[1].time_elapsed, snapshot[1].time_requested) = 7499
    /\ getElapsedPercentage(jobs[1].time_elapsed, jobs[1].time_requested) = 7500
    /\ getColor(7500) = "text-red-600"
    /\ barColor(7500) = "bg-red-600"

-----------------------------------------------------------------------------
(* Teardown, retry and order *)

\* C12: after a cancel of job j has failed (j being in the list), the job is
\* still shown with its cancel button enabled, so that a new cancel request
\* for j can be issued.
C12_FailedCancelRetryable ==
    \A j \in JobIds :
        (mounted /\ lastOp.op = "cancelFail" /\ lastOp.id = j /\ j \in Ids(jobs))
        => (Rendered /\ ~ButtonDisabled(j))

C14_NoTickAfterTeardown ==
    [][~mounted => (nticks' = nticks /\ jobs' = jobs)]_vars

C14_Witness ==
    /\ ~mounted
    /\ nticks > 0
    /\ nticks < MaxTicks
    /\ lastOp.op = "cancelFail"
    /\ \E i \in 1..Len(jobs) : jobs[i].state = "R"

\* The ids of a list, in its order
IdSeq(list) == [i \in 1..Len(list) |-> list[i].job_id]

\* a is b with some elements left out
RECURSIVE IsSubsequence(_, _)
IsSubsequence(a, b) ==
    IF a = <<>> THEN TRUE
    ELSE IF b = <<>> THEN FALSE
    ELSE IF Head(a) = Head(b) THEN IsSubsequence(Tail(a), Tail(b))
    ELSE IsSubsequence(a, Tail(b))

NoDuplicates(a) == \A i, k \in 1..Len(a) : a[i] = a[k] => i = k

\* C16: the list shows the jobs in the order of the snapshot that supplied
\* them: after any ticks and removals the sequence of job ids of the list is
\* a subsequence of the snapshot's, nothing reordered, nothing duplicated.
C16_SnapshotOrder ==
    mounted => /\ IsSubsequence(IdSeq(jobs), IdSeq(snapshot))
               /\ NoDuplicates(IdSeq(jobs))

C16_Witness ==
    /\ mounted
    /\ IdSeq(snapshot) = <<"A", "B", "C">>
    /\ IdSeq(jobs) = <<"A", "C">>
    /\ nticks > 0

\* C18: removing is idempotent: removing an id that is not in the list, once
\* or twice, changes nothing, and removing an id of the list twice gives what
\* removing it once gives.
C18_RemoveIdempotent ==
    \A j \in JobIds :
        LET once == removeJob(jobs, j)
        IN  /\ removeJob(once, j) = once
            /\ j \notin Ids(once)
            /\ j \notin Ids(jobs) => once = jobs

\* both of two requests to cancel the same job have succeeded: the second
\* removal found the job gone
C18_Witness ==
    \E j \in JobIds :
        /\ mounted /\ error = Null
        /\ cancelCalls[j] = 2 /\ pending[j] = 0
        /\ lastOp = Op("cancelOk", j, Null)
        /\ j \notin Ids(jobs)
        /\ jobs # <<>>

\* C20: a job removed by a successful cancel never comes back: no tick, no
\* resolution of another cancel and no late result of the fetch re-inserts
\* it, a cancel being issued only once the one fetch has resolved.  (An id
\* for which a cancel was issued was in the list; the only thing that takes
\* it out of the list is a successful cancel of it.)
C20_RemovedStaysRemoved ==
    [][\A j \in JobIds :
          /\ cancelCalls'[j] > 0 => fetchState' = "ok"
          /\ (cancelCalls[j] > 0 /\ j \notin Ids(jobs)) => j \notin Ids(jobs')]_vars

C20_Witness ==
    \E j, k \in JobIds :
        /\ j # k
        /\ mounted
        /\ cancelCalls[j] > 0 /\ j \notin Ids(jobs)
        /\ cancelCalls[k] > 0 /\ pending[k] = 0 /\ k \in Ids(jobs)
        /\ lastOp.op = "tick"

-----------------------------------------------------------------------------
(* Formatting and malformed durations *)

\* The text holds "NaN" or "undefined"
HasNaN(str) ==
    \/ \E i \in 1..(Len(str) - 2) : SubSeq(str, i, i + 2) = <<"N", "a", "N">>
    \/ Includes(str, "u")

\* C15: a duration with fewer than three colon-separated fields or with a
\* non-numeric field is treated as zero seconds and never gives a NaN: not as
\* seconds, not as percentage, not in the displayed time, and not in the
\* elapsed string a tick writes.
C15_MalformedIsZero ==
    \A i \in 1..Len(jobs) :
        LET el == jobs[i].time_elapsed
            rq == jobs[i].time_requested
        IN  /\ IsNum(toSeconds(el))
            /\ IsNum(getElapsedPercentage(el, rq))
            /\ ~HasNaN(formatTime(el))
            /\ ~HasNaN(el)
            /\ (nticks = 0 /\ ~IsDuration(el)) => toSeconds(el) = 0

\* The units of a number of seconds, from the largest one that is not zero
\* down to the seconds
UnitsOf(total) ==
    LET d == total \div 86400
        h == (total % 86400) \div 3600
        m == (total % 3600) \div 60
        sec == total % 60
        all == <<String(d) \o <<"d">>, String(h) \o <<"h">>, String(m) \o <<"m">>,
                 String(sec) \o <<"s">>>>
        first == IF d > 0 THEN 1 ELSE IF h > 0 THEN 2 ELSE IF m > 0 THEN 3 ELSE 4
    IN  SubSeq(all, first, 4)

RECURSIVE Spaced(_)
Spaced(units) ==
    IF Len(units) = 1 THEN units[1]
    ELSE units[1] \o <<" ">> \o Spaced(Tail(units))

\* C17: format shows the units from the largest non-zero one downwards,
\* separated by blanks: the seconds always, every unit below a shown one even
\* when zero, and no unit above the largest non-zero one; 3 seconds is "3s"
\* and 1 hour 0 minutes 12 seconds is "1h 0m 12s".
C17_FormatUnits ==
    \A i \in 1..Len(jobs) :
        \A t \in {jobs[i].time_elapsed, jobs[i].time_requested} :
            (t # <<>> /\ IsValidDuration(t))
            => /\ formatTime(t) = Spaced(UnitsOf(toSeconds(t)))
               /\ toSeconds(t) = 3 => formatTime(t) = <<"3", "s">>
               /\ toSeconds(t) = 3612
                     => formatTime(t) = <<"1", "h", " ", "0", "m", " ", "1", "2", "s">>

C17_Witness ==
    /\ nticks = 2
    /\ jobs[1].time_elapsed = <<"0", "1", ":", "0", "0", ":", "1", "2">>
    /\ formatTime(jobs[1].time_elapsed) = <<"1", "h", " ", "0", "m", " ", "1", "2", "s">>
    /\ formatTime(jobs[1].time_requested) = <<"1", "d", " ", "0", "h", " ", "0", "m", " ", "0", "s">>

-----------------------------------------------------------------------------
(* Layout lock *)

\* C19: while at least one Modal is open the layout is locked, and once
\* every Modal is closed layoutLocked has the value it had before the first
\* one was opened, in whatever order two Modals open at the same time are
\* opened and closed.
C19_LockHeldAndRestored ==
    /\ (\E m \in Modals : showModal[m]) => layoutLocked
    /\ (\A m \in Modals : ~showModal[m]) => layoutLocked = lockBefore

====
